---- MODULE Spec2Model ----
(***************************************************************************)
(* A model of prepwise's HEB cart automation (tools/heb_cart.py) and of    *)
(* the tools that expose it (server.py), of the browser sessions the tool  *)
(* calls open on the shared profile directory, of the preference and       *)
(* favorite-site tools with their JSON stores, and of the two text         *)
(* functions of heb_cart.py applied to ingredient texts.                   *)
(*                                                                         *)
(* Text is a sequence of one-character strings, so that the regular        *)
(* expressions of _clean_ingredient_for_search act on characters.  An     *)
(* optional value (Python's None or a value) is a sequence of length 0 or  *)
(* 1.  The browser (Playwright) is the environment: every awaited call     *)
(* either returns or raises, and what a page shows is chosen by \E.        *)
(***************************************************************************)
EXTENDS Integers, Sequences, FiniteSets, TLC

\* ------------------------------------------------------------------ bounds

\* The longest ingredient list a run is given.
MaxItems == 2

\* The number of tool calls that use the browser session.
MaxCalls == 2

\* ------------------------------------------------------------- optionals

None == <<>>
Some(v) == <<v>>

\* ------------------------------------------------------------ characters

Digits == {"0", "1", "2", "3", "4", "5", "6", "7", "8", "9"}

LowerLetters ==
  <<"a", "b", "c", "d", "e", "f", "g", "h", "i", "j", "k", "l", "m",
    "n", "o", "p", "q", "r", "s", "t", "u", "v", "w", "x", "y", "z">>

UpperLetters ==
  <<"A", "B", "C", "D", "E", "F", "G", "H", "I", "J", "K", "L", "M",
    "N", "O", "P", "Q", "R", "S", "T", "U", "V", "W", "X", "Y", "Z">>

\* re.IGNORECASE: characters are compared by their lower-case form.
Lower(c) ==
  IF \E i \in 1..26 : UpperLetters[i] = c
  THEN LowerLetters[CHOOSE i \in 1..26 : UpperLetters[i] = c]
  ELSE c

\* \w of Python's re.
IsWord(c) ==
  \/ c \in Digits
  \/ c = "_"
  \/ \E i \in 1..26 : c = LowerLetters[i] \/ c = UpperLetters[i]

\* \s of Python's re.
IsSpace(c) == c \in {" ", "\t", "\n"}

\* \b at the gap before position i of s (1-based; i = Len(s)+1 is the end).
Boundary(s, i) ==
  LET before == i > 1 /\ IsWord(s[i - 1])
      after == i <= Len(s) /\ IsWord(s[i])
  IN before # after

\* --------------------------------------------------------- regex patterns

\* One element of a pattern: a literal character, or the character with "?".
L(c) == [ch |-> c, opt |-> FALSE]
O(c) == [ch |-> c, opt |-> TRUE]

units ==
  << <<L("c"), L("u"), L("p"), O("s")>>,
     <<L("t"), L("b"), L("s"), O("p")>>,
     <<L("t"), L("s"), O("p")>>,
     <<L("t"), L("a"), L("b"), L("l"), L("e"), L("s"), L("p"), L("o"), L("o"), L("n"), O("s")>>,
     <<L("t"), L("e"), L("a"), L("s"), L("p"), L("o"), L("o"), L("n"), O("s")>>,
     <<L("o"), L("z")>>,
     <<L("o"), L("u"), L("n"), L("c"), L("e"), O("s")>>,
     <<L("l"), L("b"), O("s")>>,
     <<L("p"), L("o"), L("u"), L("n"), L("d"), O("s")>>,
     <<L("g"), L("r"), L("a"), L("m"), O("s")>>,
     <<L("g")>>,
     <<L("m"), L("l")>>,
     <<L("l"), L("i"), L("t"), L("e"), L("r"), O("s")>>,
     <<L("q"), L("u"), L("a"), L("r"), L("t"), O("s")>>,
     <<L("p"), L("i"), L("n"), L("t"), O("s")>>,
     <<L("g"), L("a"), L("l"), L("l"), L("o"), L("n"), O("s")>>,
     <<L("c"), L("l"), L("o"), L("v"), L("e"), O("s")>>,
     <<L("h"), L("e"), L("a"), L("d"), O("s")>>,
     <<L("b"), L("u"), L("n"), L("c"), L("h"), O("e"), O("s")>>,
     <<L("c"), L("a"), L("n"), O("s")>>,
     <<L("j"), L("a"), L("r"), O("s")>>,
     <<L("p"), L("a"), L("c"), L("k"), L("a"), L("g"), L("e"), O("s")>>,
     <<L("b"), L("a"), L("g"), O("s")>>,
     <<L("b"), L("o"), L("x"), L("e"), O("s")>>,
     <<L("c"), L("o"), L("n"), L("t"), L("a"), L("i"), L("n"), L("e"), L("r"), O("s")>>,
     <<L("s"), L("m"), L("a"), L("l"), L("l")>>,
     <<L("m"), L("e"), L("d"), L("i"), L("u"), L("m")>>,
     <<L("l"), L("a"), L("r"), L("g"), L("e")>>,
     <<L("e"), L("x"), L("t"), L("r"), L("a"), L("-"), L("l"), L("a"), L("r"), L("g"), L("e")>> >>

prep_words ==
  << <<L("c"), L("h"), L("o"), L("p"), L("p"), L("e"), L("d")>>,
     <<L("d"), L("i"), L("c"), L("e"), L("d")>>,
     <<L("m"), L("i"), L("n"), L("c"), L("e"), L("d")>>,
     <<L("s"), L("l"), L("i"), L("c"), L("e"), L("d")>>,
     <<L("c"), L("u"), L("b"), L("e"), L("d")>>,
     <<L("c"), L("r"), L("u"), L("s"), L("h"), L("e"), L("d")>>,
     <<L("g"), L("r"), L("a"), L("t"), L("e"), L("d")>>,
     <<L("s"), L("h"), L("r"), L("e"), L("d"), L("d"), L("e"), L("d")>>,
     <<L("m"), L("e"), L("l"), L("t"), L("e"), L("d")>>,
     <<L("s"), L("o"), L("f"), L("t"), L("e"), L("n"), L("e"), L("d")>>,
     <<L("f"), L("r"), L("e"), L("s"), L("h")>>,
     <<L("f"), L("r"), L("o"), L("z"), L("e"), L("n")>>,
     <<L("c"), L("a"), L("n"), L("n"), L("e"), L("d")>>,
     <<L("d"), L("r"), L("i"), L("e"), L("d")>>,
     <<L("g"), L("r"), L("o"), L("u"), L("n"), L("d")>>,
     <<L("o"), L("p"), L("t"), L("i"), L("o"), L("n"), L("a"), L("l")>>,
     <<L("t"), L("o"), L(" "), L("t"), L("a"), L("s"), L("t"), L("e")>>,
     <<L("f"), L("o"), L("r"), L(" "), L("s"), L("e"), L("r"), L("v"), L("i"), L("n"), L("g")>>,
     <<L("d"), L("i"), L("v"), L("i"), L("d"), L("e"), L("d")>> >>

\* Then(x, F) is F(x), with x evaluated once (TLC evaluates an operator's
\* argument again at each place the operator's body uses it).
Then(x, F(_)) == CHOOSE r \in {F(v) : v \in {x}} : TRUE

\* The least element of a non-empty set of integers.
Min(S) == CHOOSE m \in S : \A n \in S : m <= n

\* The elements of s at the positions that satisfy Keep, in order.
Filter(s, Keep(_)) ==
  LET kept == {i \in 1..Len(s) : Keep(i)}
      Nth(k) == CHOOSE i \in kept : Cardinality({j \in kept : j <= i}) = k
  IN [k \in 1..Cardinality(kept) |-> s[Nth(k)]]

\* The positions at which pattern pat, matched from its j-th element at
\* position i of s, can end, in the order the backtracking matcher tries them
\* (an optional element is taken first, then skipped).
RECURSIVE Ends(_, _, _, _)
Ends(s, i, pat, j) ==
  IF j > Len(pat) THEN <<i>>
  ELSE LET e == pat[j]
           taken == IF i <= Len(s) /\ Lower(s[i]) = e.ch
                    THEN Ends(s, i + 1, pat, j + 1) ELSE <<>>
           skipped == IF e.opt THEN Ends(s, i, pat, j + 1) ELSE <<>>
       IN taken \o skipped

\* Where r"pat\b" matched at position i ends: the first of Ends that is
\* followed by \b, or 0 when there is none.
PatEnd(s, i, pat) ==
  LET ends == Ends(s, i, pat, 1)
      ok == {n \in 1..Len(ends) : Boundary(s, ends[n])}
  IN IF ok = {} THEN 0 ELSE ends[Min(ok)]

\* r"\b(alts)\b" followed by an optional character tail, tried at position i:
\* the position after the match, or 0 when there is no match at i.  The
\* alternatives are tried in order.
MatchWord(s, i, alts, tail) ==
  LET ok == {k \in 1..Len(alts) : PatEnd(s, i, alts[k]) # 0}
      e == PatEnd(s, i, alts[Min(ok)])
  IN IF ~Boundary(s, i) \/ ok = {} THEN 0
     ELSE IF e <= Len(s) /\ s[e] = tail THEN e + 1
     ELSE e

\* re.sub(r"\b(alts)\b<tail>?", "", s, flags=re.IGNORECASE) from position i:
\* the text up to the leftmost match at or after i is kept, the match is
\* dropped, and the scan goes on after it.
RECURSIVE SubWord(_, _, _, _)
SubWord(s, i, alts, tail) ==
  LET starts == {j \in i..Len(s) : MatchWord(s, j, alts, tail) # 0}
      Rest(j) == SubSeq(s, i, j - 1)
                   \o Then(MatchWord(s, j, alts, tail),
                           LAMBDA e : SubWord(s, e, alts, tail))
  IN IF starts = {} THEN SubSeq(s, i, Len(s)) ELSE Then(Min(starts), Rest)

\* [\d./\s]
IsQuantityChar(c) == c \in Digits \/ c \in {".", "/"} \/ IsSpace(c)

\* re.sub(r"^\d+[\d./\s]*", "", s): the longest prefix of [\d./\s] is dropped
\* when s starts with a digit.
StripQuantity(s) ==
  LET stops == {i \in 1..Len(s) : ~IsQuantityChar(s[i])}
      end == IF stops = {} THEN Len(s) + 1 ELSE Min(stops)
  IN IF Len(s) > 0 /\ s[1] \in Digits THEN SubSeq(s, end, Len(s)) ELSE s

\* re.sub(r"\([^)]*\)", "", s) from position i: the leftmost "(" that has a
\* ")" after it is dropped with everything up to its first ")".
RECURSIVE StripParens(_, _)
StripParens(s, i) ==
  LET Closes(j) == {c \in (j + 1)..Len(s) : s[c] = ")"}
      opens == {j \in i..Len(s) : s[j] = "(" /\ Closes(j) # {}}
      Rest(j) == SubSeq(s, i, j - 1)
                   \o Then(Min(Closes(j)) + 1, LAMBDA e : StripParens(s, e))
  IN IF opens = {} THEN SubSeq(s, i, Len(s)) ELSE Then(Min(opens), Rest)

\* The loop over prep_words: one re.sub per word, each on the last result.
RECURSIVE StripPrepWords(_, _)
StripPrepWords(s, k) ==
  IF k > Len(prep_words) THEN s
  ELSE Then(SubWord(s, 1, <<prep_words[k]>>, ","),
            LAMBDA t : StripPrepWords(t, k + 1))

\* Mutant of CollapseSpace: whitespace is dropped, not collapsed.
CollapseSpaceAway(s) == SelectSeq(s, LAMBDA c : ~IsSpace(c))

\* re.sub(r"\s+", " ", s): a run of whitespace becomes one space.
CollapseSpace(s) ==
  LET first == [i \in 1..Len(s) |-> IF IsSpace(s[i]) THEN " " ELSE s[i]]
      Keep(i) == ~(IsSpace(s[i]) /\ i > 1 /\ IsSpace(s[i - 1]))
  IN Filter(first, Keep)

\* str.strip(chars)
Strip(s, chars) ==
  LET inner == {i \in 1..Len(s) : s[i] \notin chars}
  IN IF inner = {} THEN <<>>
     ELSE SubSeq(s, Min(inner), CHOOSE m \in inner : \A n \in inner : n <= m)

_clean_ingredient_for_search(ingredient) ==
  LET Parens(s) == StripParens(s, 1)
      Units(s) == SubWord(s, 1, units, ".")
      Prep(s) == StripPrepWords(s, 1)
      Trim(s) == Strip(s, {" ", ",", ".", "-"})
  IN Then(Then(Then(Then(Then(StripQuantity(ingredient),
       Parens), Units), Prep), CollapseSpace), Trim)

\* str.split(): the maximal runs of non-whitespace of s.
Split(s) ==
  LET starts == {i \in 1..Len(s) : ~IsSpace(s[i]) /\ (i = 1 \/ IsSpace(s[i - 1]))}
      Start(k) == CHOOSE i \in starts : Cardinality({j \in starts : j <= i}) = k
      End(i) == Min({e \in i..Len(s) : e = Len(s) \/ IsSpace(s[e + 1])})
  IN [k \in 1..Cardinality(starts) |-> SubSeq(s, Start(k), End(Start(k)))]

SuggestionPrefix ==
  <<"T", "r", "y", " ", "s", "i", "m", "p", "l", "e", "r", " ",
    "s", "e", "a", "r", "c", "h", ":", " ">>

\* Mutant of _get_search_suggestion: the cleaned text is returned as it is,
\* without the annotation.
SuggestionWithoutPrefix(ingredient) ==
  LET Suggest(cleaned) ==
        LET Last2(words) ==
              IF Len(words) > 2
              THEN words[Len(words) - 1] \o <<" ">> \o words[Len(words)]
              ELSE cleaned
        IN Then(Split(cleaned), Last2)
  IN Then(_clean_ingredient_for_search(ingredient), Suggest)

\* Mutant of _get_search_suggestion: the first two words, not the last two.
SuggestionFirstTwoWords(ingredient) ==
  LET Suggest(cleaned) ==
        LET First2(words) ==
              IF Len(words) > 2
              THEN words[1] \o <<" ">> \o words[2]
              ELSE SuggestionPrefix \o cleaned
        IN Then(Split(cleaned), First2)
  IN Then(_clean_ingredient_for_search(ingredient), Suggest)

_get_search_suggestion(ingredient) ==
  LET Suggest(cleaned) ==
        LET Last2(words) ==
              IF Len(words) > 2
              THEN words[Len(words) - 1] \o <<" ">> \o words[Len(words)]
              ELSE SuggestionPrefix \o cleaned
        IN Then(Split(cleaned), Last2)
  IN Then(_clean_ingredient_for_search(ingredient), Suggest)

\* ------------------------------------------------------------------ floats

DigitSeq == <<"0", "1", "2", "3", "4", "5", "6", "7", "8", "9">>

DigitVal(c) == (CHOOSE d \in 1..10 : DigitSeq[d] = c) - 1

\* The number a digit string denotes.
RECURSIVE Decimal(_)
Decimal(ds) ==
  IF ds = <<>> THEN 0
  ELSE 10 * Decimal(SubSeq(ds, 1, Len(ds) - 1)) + DigitVal(ds[Len(ds)])

\* A float is mant / 10^exp, with no trailing zero in the fraction.
RECURSIVE Normal(_)
Normal(f) ==
  IF f.exp > 0 /\ f.mant % 10 = 0
  THEN Normal([mant |-> f.mant \div 10, exp |-> f.exp - 1])
  ELSE f

\* float(t) for a text t of digits and dots: None stands for ValueError (no
\* digit, or more than one dot).
float(t) ==
  LET dots == {k \in 1..Len(t) : t[k] = "."}
      digits == Filter(t, LAMBDA k : t[k] # ".")
      exp == IF dots = {} THEN 0 ELSE Len(t) - Min(dots)
  IN IF Cardinality(dots) > 1 \/ digits = <<>> THEN None
     ELSE Some(Normal([mant |-> Decimal(digits), exp |-> exp]))

\* re.search(r"\$?([\d.]+)", text).group(1): the longest run of [\d.] from
\* the first such character; None when the text has none.
NumberMatch(text) ==
  LET IsNum(c) == c \in Digits \/ c = "."
      nums == {k \in 1..Len(text) : IsNum(text[k])}
      from == Min(nums)
      stops == {k \in from..Len(text) : ~IsNum(text[k])}
      to == IF stops = {} THEN Len(text) ELSE Min(stops) - 1
  IN IF nums = {} THEN None ELSE Some(SubSeq(text, from, to))

\* ------------------------------------------------------------ the browser

\* What an awaited Playwright call can raise.  str(e) is e.msg; an exception
\* built without arguments has the empty message.
TimeoutError == [type |-> "TimeoutError", msg |-> "Timeout 10000ms exceeded."]
Exceptions ==
  { TimeoutError,
    [type |-> "Error", msg |-> "net::ERR_ABORTED"],
    [type |-> "Error", msg |-> ""] }

str(e) == e.msg

\* Python's truth value of an optional string / of an optional text.
TruthyStr(o) == o # None /\ o[1] # ""
TruthyText(o) == o # None /\ o[1] # <<>>

\* A product tile of a results page: whether it holds an add-to-cart button,
\* and the text content of its title and price elements (None: no element).
TileChicken ==
  [btn |-> TRUE,
   title |-> Some(<<" ", "C", "h", "i", "c", "k", "e", "n", " ">>),
   price_text |-> Some(<<"$", "3", ".", "9", "9", " ", "e", "a", "c", "h">>)]
TileSoldOut ==
  [btn |-> FALSE,
   title |-> Some(<<"G", "a", "r", "l", "i", "c">>),
   price_text |-> Some(<<"1", ".", "2", ".", "3">>)]

\* The results pages a search can show: the product tiles in page order.
Pages ==
  { <<>>, <<TileChicken>>, <<TileSoldOut>>, <<TileSoldOut, TileChicken>> }

\* What the cart page can show in its total element (None: no element).
CartTotals ==
  { None,
    Some(<<"T", "o", "t", "a", "l", ":", " ", "$", "1", "2", ".", "5", "0">>),
    Some(<<"1", ".", "2", ".", "3">>) }

\* The ingredient lines a caller passes.
Ingredients ==
  { <<"2", " ", "l", "b", "s", " ", "c", "h", "i", "c", "k", "e", "n">>,
    <<"1", " ", "c", "u", "p", " ", "d", "i", "c", "e", "d", " ", "r", "e", "d",
      " ", "b", "e", "l", "l", " ", "p", "e", "p", "p", "e", "r">>,
    <<"2", " ", "c", "u", "p", "s">> }

IngredientLists == UNION {[1..n -> Ingredients] : n \in 0..MaxItems}

\* ------------------------------------------------------------------ models

\* models/heb.py: HEBCartItem, with the defaults of its optional fields.
HEBCartItem(term, name, amount, success, error, suggest) ==
  [search_term |-> term, product_name |-> name, price |-> amount,
   quantity |-> 1, success |-> success, error |-> error,
   suggestion |-> suggest]

\* models/heb.py: HEBCartResult()
HEBCartResult ==
  [items |-> <<>>, total_added |-> 0, total_not_found |-> 0,
   total_errors |-> 0, cart_total |-> None]

\* ------------------------------------------------------------------- state

VARIABLES
  pc,                 \* where the tool call is: the await it is at
  ingredients,        \* the argument of add_items_to_cart
  idx,                \* the position in ingredients the for loop is at
  result,             \* add_items_to_cart's result
  dom,                \* the product tiles of the results page being read
  product_name,       \* _add_single_item's local
  price,              \* _add_single_item's local
  playwright_running, \* the Playwright driver was started and not stopped
  context_open,       \* the persistent context was launched and not closed
  cart,               \* the tiles whose add-to-cart button was clicked
  calls,              \* the browser calls made for the ingredient at idx,
                      \* until the loop goes on (then the cart page's)
  navs,               \* the navigations made: an ingredient's position for
                      \* its search, 0 for the cart page
  response,           \* what prepwise_add_to_heb_cart returned (None: not yet)
  profile,            \* the profile directory HEB_SESSION_DIR on disk
  tool_call,          \* the tool calls that use the browser session, each
                      \* with the await it is at and the handles it holds
  prefs_file,         \* preferences.json (None: no file)
  pref_call,          \* the last prepwise_update_preference call and reply
  sites_file,         \* favorite_sites.json (None: no file)
  site_call,          \* the last favorite-site call and its reply
  text_call           \* the ingredient text a caller cleans, with what
                      \* _clean_ingredient_for_search and
                      \* _get_search_suggestion returned for it

\* What one run of add_items_to_cart reads and writes.
run_vars ==
  <<pc, ingredients, idx, result, dom, product_name, price,
    playwright_running, context_open, cart, calls, navs, response>>

\* The browser sessions of the tool calls, and the profile they share.
session_vars == <<profile, tool_call>>

\* The JSON files of the preference and favorite-site tools.
store_vars == <<prefs_file, pref_call, sites_file, site_call>>

\* The calls of the two text functions of heb_cart.py.
text_vars == <<text_call>>

vars == <<run_vars, session_vars, store_vars, text_vars>>

\* ------------------------------------------------- the browser sessions

\* The tool calls that use a browser session: prepwise_get_heb_session_status,
\* prepwise_heb_login and prepwise_add_to_heb_cart, in the order they are
\* made.  A later call may start while an earlier one is at an await.
Calls == 1..MaxCalls

\* HEB_SESSION_DIR on disk: no directory, an empty one, one the browser has
\* written its profile to, or one the process may not list.
ProfileStates == {"absent", "empty", "used", "unreadable"}

\* HEB_SESSION_DIR.iterdir() on a directory the process may not list.
PermissionError ==
  [type |-> "PermissionError", msg |-> "[Errno 13] Permission denied"]

\* A call not made yet.  driver and context are the handles the call got
\* from get_browser_context and has not released; seen is what line 69 found;
\* did holds what the call did to the disk and the browser; open_at_launch
\* is the number of contexts open on the profile when it called
\* launch_persistent_context; exc is the
\* last exception an awaited call raised, ret the value a finally clause was
\* entered with, reply what the tool returned.
IdleCall ==
  [tool |-> "", pc |-> "idle", driver |-> FALSE, context |-> FALSE,
   seen |-> None, did |-> {}, open_at_launch |-> None, exc |-> None,
   ret |-> None, reply |-> None]

\* ------------------------------------------------------------ first state

\* The state before any tool call, with the profile directory as p.
InitWith(p) ==
  /\ profile = p
  /\ tool_call = [c \in Calls |-> IdleCall]
  /\ prefs_file = None
  /\ pref_call = None
  /\ sites_file = None
  /\ site_call = None
  /\ text_call = None

\* No run of add_items_to_cart has started.
RunInit ==
  /\ pc = "idle"
  /\ ingredients = <<>>
  /\ idx = 0
  /\ result = HEBCartResult
  /\ dom = <<>>
  /\ product_name = None
  /\ price = None
  /\ playwright_running = FALSE
  /\ context_open = FALSE
  /\ cart = <<>>
  /\ calls = <<>>
  /\ navs = <<>>
  /\ response = None

Init == InitWith("absent") /\ RunInit

\* One entry of calls: the call, what it was given or gave, what it raised.
Called(call, arg, exc) == [call |-> call, arg |-> arg, exc |-> exc]

\* ---------------------------------------------------- _add_single_item

\* search_term = _clean_ingredient_for_search(ingredient), for each ingredient
\* line a caller passes (a pure function, evaluated once per line).
search_term == [ingredient \in Ingredients |->
                  _clean_ingredient_for_search(ingredient)]

\* _get_search_suggestion(ingredient), likewise.
suggestion == [ingredient \in Ingredients |->
                 _get_search_suggestion(ingredient)]

\* The "not found" result (the two early returns).
NotFoundItem(ingredient) ==
  HEBCartItem(ingredient, None, None, FALSE, None,
              Some(suggestion[ingredient]))

\* Mutant of ErrorItem: the error path also makes a suggestion.
ErrorItemWithSuggestion(ingredient, e) ==
  HEBCartItem(ingredient, None, None, FALSE, Some(str(e)),
              Some(suggestion[ingredient]))

\* Mutant of ErrorItem: the error path reports the name and price read
\* before the failure.
ErrorItemKeepsProduct(ingredient, e) ==
  HEBCartItem(ingredient, product_name, price, FALSE, Some(str(e)), None)

\* The result of the outer except clause.
ErrorItem(ingredient, e) ==
  HEBCartItem(ingredient, None, None, FALSE, Some(str(e)), None)

\* Mutant of AddedItem: the cleaned search term is reported, not the
\* ingredient as passed.
AddedItemCleanedTerm(ingredient, name, amount) ==
  HEBCartItem(search_term[ingredient], name, amount, TRUE, None, None)

\* The result after the click.
AddedItem(ingredient, name, amount) ==
  HEBCartItem(ingredient, name, amount, TRUE, None, None)

\* Mutant of Collect: "elif item_result.error" written as "if", so that a
\* success is also counted as not found.
CollectIfForElif(res, item_result) ==
  [res EXCEPT
     !.items = Append(@, item_result),
     !.total_added = IF item_result.success THEN @ + 1 ELSE @,
     !.total_errors = IF TruthyStr(item_result.error) THEN @ + 1 ELSE @,
     !.total_not_found = IF ~TruthyStr(item_result.error) THEN @ + 1 ELSE @]

\* The body of add_items_to_cart's loop after the await: the item is appended
\* and counted under one of the three totals.
Collect(res, item_result) ==
  [res EXCEPT
     !.items = Append(@, item_result),
     !.total_added = IF item_result.success THEN @ + 1 ELSE @,
     !.total_errors =
        IF ~item_result.success /\ TruthyStr(item_result.error)
        THEN @ + 1 ELSE @,
     !.total_not_found =
        IF ~item_result.success /\ ~TruthyStr(item_result.error)
        THEN @ + 1 ELSE @]

\* Mutant of ItemDone: an item's exception is not caught per item, it ends
\* the run.
ItemDoneOrAbort(item_result) ==
  IF item_result.error # None
  THEN /\ pc' = "raised"
       /\ response' = Some([error |-> item_result.error[1]])
       /\ product_name' = None
       /\ price' = None
       /\ dom' = <<>>
       /\ UNCHANGED result
  ELSE /\ result' = Collect(result, item_result)
       /\ product_name' = None
       /\ price' = None
       /\ dom' = <<>>
       /\ pc' = "sleep"
       /\ UNCHANGED response

\* Mutant of ItemDone: the loop goes on to the next ingredient without having
\* appended and counted the item result.
ItemDoneUncollected(item_result) ==
  /\ UNCHANGED <<result, response>>
  /\ product_name' = None
  /\ price' = None
  /\ dom' = <<>>
  /\ pc' = "sleep"

\* _add_single_item returns item_result to the loop, which goes to its sleep.
\* The locals are gone, and the tiles of this search are not read again: the
\* next call on the page is a navigation.
ItemDone(item_result) ==
  /\ result' = Collect(result, item_result)
  /\ product_name' = None
  /\ price' = None
  /\ dom' = <<>>
  /\ pc' = "sleep"
  /\ UNCHANGED response

\* The title of a tile as _add_single_item reads it.
ReadName(tile) ==
  IF TruthyText(tile.title)
  THEN Some(Strip(tile.title[1], {" ", "\t", "\n"}))
  ELSE None

\* The amount in a text: the first number-like part, as a float; None when
\* there is no such part.  ValueError stands for float() raising.
ReadAmount(text) ==
  LET m == NumberMatch(text[1])
  IN IF ~TruthyText(text) \/ m = None THEN None
     ELSE IF float(m[1]) = None THEN "ValueError"
     ELSE float(m[1])

\* page.locator(add_to_cart_btn).first: the first add-to-cart button of the
\* page, whichever tile holds it (0: there is none).
FirstButton(tiles) ==
  LET with == {k \in 1..Len(tiles) : tiles[k].btn}
  IN IF with = {} THEN 0 ELSE Min(with)

\* ----------------------------------------------------------- the tool call

\* server.py: what prepwise_add_to_heb_cart returns for a result.  summary()
\* is kept as the names it lists, not as text.
summary(res) ==
  [added |-> [k \in 1..Len(SelectSeq(res.items, LAMBDA it : it.success)) |->
                LET it == SelectSeq(res.items, LAMBDA x : x.success)[k]
                IN IF TruthyText(it.product_name)
                   THEN it.product_name[1] ELSE it.search_term],
   failed |-> [k \in 1..Len(SelectSeq(res.items, LAMBDA it : ~it.success)) |->
                 SelectSeq(res.items, LAMBDA x : ~x.success)[k].search_term]]

ResultResponse(res) ==
  [items |-> res.items, total_added |-> res.total_added,
   total_not_found |-> res.total_not_found,
   total_errors |-> res.total_errors, cart_total |-> res.cart_total,
   cart_url |-> "https://www.heb.com/cart", summary |-> summary(res)]

\* Mutant of ErrorResponse: the error is returned with a result around it.
ErrorResponseWithResult(e) ==
  [items |-> result.items, total_added |-> result.total_added,
   total_not_found |-> result.total_not_found,
   total_errors |-> result.total_errors, error |-> str(e)]

\* server.py: what it returns when add_items_to_cart raised.
ErrorResponse(e) == [error |-> str(e)]

\* add_items_to_cart raises e to prepwise_add_to_heb_cart.
Raise(e) ==
  /\ pc' = "raised"
  /\ response' = Some(ErrorResponse(e))

\* Mutant of Return: the session is torn down before the result is returned.
ReturnAndClose(res) ==
  /\ result' = res
  /\ pc' = "returned"
  /\ response' = Some(ResultResponse(res))
  /\ context_open' = FALSE
  /\ playwright_running' = FALSE

\* add_items_to_cart returns res; its finally clause leaves the session as
\* it is.
Return(res) ==
  /\ result' = res
  /\ pc' = "returned"
  /\ response' = Some(ResultResponse(res))
  /\ UNCHANGED <<playwright_running, context_open>>

\* prepwise_add_to_heb_cart(ingredients) is called.
Call ==
  /\ UNCHANGED <<session_vars, store_vars, text_vars>>
  /\ pc = "idle"
  /\ \E ings \in IngredientLists : ingredients' = ings
  /\ result' = HEBCartResult
  /\ pc' = "start_playwright"
  /\ UNCHANGED <<idx, dom, product_name, price, playwright_running,
                 context_open, cart, calls, navs, response>>

\* get_browser_context: async_playwright().start()
StartPlaywright ==
  /\ UNCHANGED <<session_vars, store_vars, text_vars>>
  /\ pc = "start_playwright"
  /\ \/ /\ playwright_running' = TRUE
        /\ pc' = "launch_context"
        /\ UNCHANGED response
     \/ /\ \E e \in Exceptions : Raise(e)
        /\ UNCHANGED playwright_running
  /\ UNCHANGED <<ingredients, idx, result, dom, product_name, price,
                 context_open, cart, calls, navs>>

\* get_browser_context: launch_persistent_context(...)
LaunchContext ==
  /\ UNCHANGED <<session_vars, store_vars, text_vars>>
  /\ pc = "launch_context"
  /\ \/ /\ context_open' = TRUE
        /\ pc' = "get_page"
        /\ UNCHANGED response
     \/ /\ \E e \in Exceptions : Raise(e)
        /\ UNCHANGED context_open
  /\ UNCHANGED <<ingredients, idx, result, dom, product_name, price,
                 playwright_running, cart, calls, navs>>

\* Mutant of GetPage: with no ingredient the empty result is returned at once,
\* without the cart-total probe.
GetPageNoProbeWhenEmpty ==
  /\ UNCHANGED <<session_vars, store_vars, text_vars>>
  /\ pc = "get_page"
  /\ \/ /\ ingredients # <<>>
        /\ idx' = 1
        /\ pc' = "item_goto"
        /\ UNCHANGED <<result, response>>
     \/ /\ ingredients = <<>>
        /\ pc' = "returned"
        /\ response' = Some(ResultResponse(result))
        /\ UNCHANGED <<idx, result>>
     \/ /\ \E e \in Exceptions : Raise(e)
        /\ UNCHANGED <<idx, result>>
  /\ UNCHANGED <<ingredients, dom, product_name, price, playwright_running,
                 context_open, cart, calls, navs>>

\* context.pages[0] or context.new_page(); then the loop starts, or with no
\* ingredient the cart-total probe.
GetPage ==
  /\ UNCHANGED <<session_vars, store_vars, text_vars>>
  /\ pc = "get_page"
  /\ \/ /\ idx' = IF ingredients = <<>> THEN 0 ELSE 1
        /\ pc' = IF ingredients = <<>> THEN "probe_goto" ELSE "item_goto"
        /\ UNCHANGED response
     \/ /\ \E e \in Exceptions : Raise(e)
        /\ UNCHANGED idx
  /\ UNCHANGED <<ingredients, result, dom, product_name, price,
                 playwright_running, context_open, cart, calls, navs>>

\* _add_single_item: page.goto(search_url)
ItemGoto ==
  /\ UNCHANGED <<session_vars, store_vars, text_vars>>
  /\ pc = "item_goto"
  /\ \E term \in {search_term[ingredients[idx]]} :
       \/ /\ \E tiles \in Pages : dom' = tiles
          /\ calls' = <<Called("goto", Some(term), None)>>
          /\ pc' = "item_wait"
          /\ UNCHANGED <<result, product_name, price, response>>
       \/ \E e \in Exceptions :
            /\ calls' = <<Called("goto", Some(term), Some(e))>>
            /\ ItemDone(ErrorItem(ingredients[idx], e))
  /\ navs' = Append(navs, idx)
  /\ UNCHANGED <<ingredients, idx, playwright_running, context_open, cart>>

\* _add_single_item: page.wait_for_selector(product_tile), which times out when
\* no tile shows; whatever it raises, the inner except returns "not found".
ItemWait ==
  /\ UNCHANGED <<session_vars, store_vars, text_vars>>
  /\ pc = "item_wait"
  /\ \/ /\ dom # <<>>
        /\ calls' = Append(calls, Called("wait_for_selector", None, None))
        /\ pc' = "item_find"
        /\ UNCHANGED <<result, dom, product_name, price, response>>
     \/ \E e \in Exceptions :
          /\ e = TimeoutError => dom = <<>>
          /\ calls' = Append(calls, Called("wait_for_selector", None, Some(e)))
          /\ ItemDone(NotFoundItem(ingredients[idx]))
  /\ UNCHANGED <<ingredients, idx, playwright_running, context_open, cart,
                 navs>>

\* _add_single_item: add_btn.count(), of the first add-to-cart button: 1 when
\* the page holds one, else 0.
ItemFind ==
  /\ UNCHANGED <<session_vars, store_vars, text_vars>>
  /\ pc = "item_find"
  /\ \/ /\ FirstButton(dom) # 0
        /\ calls' = Append(calls, Called("count", Some(1), None))
        /\ pc' = "item_extract"
        /\ UNCHANGED <<result, dom, product_name, price, response>>
     \/ /\ FirstButton(dom) = 0
        /\ calls' = Append(calls, Called("count", Some(0), None))
        /\ ItemDone(NotFoundItem(ingredients[idx]))
     \/ \E e \in Exceptions :
          /\ calls' = Append(calls, Called("count", None, Some(e)))
          /\ ItemDone(ErrorItem(ingredients[idx], e))
  /\ UNCHANGED <<ingredients, idx, playwright_running, context_open, cart,
                 navs>>

\* Mutant of ItemExtract: there is no inner try, so that an exception of the
\* extraction reaches the outer except and the item is an error.
ItemExtractUnguarded ==
  /\ UNCHANGED <<session_vars, store_vars, text_vars>>
  /\ pc = "item_extract"
  /\ \E raises \in {"nothing", "name", "price"} :
       LET amount == ReadAmount(dom[1].price_text)
       IN IF raises = "nothing" /\ amount # "ValueError"
          THEN /\ product_name' = ReadName(dom[1])
               /\ price' = amount
               /\ calls' = Append(calls,
                    Called("extract", Some(<<product_name', price'>>), None))
               /\ pc' = "item_click"
               /\ UNCHANGED <<result, dom, response>>
          ELSE /\ calls' = Append(calls, Called("extract", None, None))
               /\ ItemDone(ErrorItem(ingredients[idx], TimeoutError))
  /\ UNCHANGED <<ingredients, idx, playwright_running, context_open, cart,
                 navs>>

\* _add_single_item: the inner try that reads the first tile's name and price.
\* An exception of the name's calls leaves both unset, one of the price's
\* calls (float() included) leaves the price unset; none is passed on.
ItemExtract ==
  /\ UNCHANGED <<session_vars, store_vars, text_vars>>
  /\ pc = "item_extract"
  /\ \E raises \in {"nothing", "name", "price"} :
       LET amount == ReadAmount(dom[1].price_text)
       IN /\ product_name' = IF raises = "name" THEN None ELSE ReadName(dom[1])
          /\ price' = IF raises = "nothing" /\ amount # "ValueError"
                      THEN amount ELSE None
  /\ calls' = Append(calls, Called("extract", Some(<<product_name', price'>>),
                                   None))
  /\ pc' = "item_click"
  /\ UNCHANGED <<ingredients, idx, result, dom, playwright_running,
                 context_open, cart, navs, response>>

\* _add_single_item: add_btn.click(), and the wait for the cart to update.
ItemClick ==
  /\ UNCHANGED <<session_vars, store_vars, text_vars>>
  /\ pc = "item_click"
  /\ \/ /\ cart' = Append(cart, dom[FirstButton(dom)])
        /\ calls' = Append(calls, Called("click", None, None))
        /\ ItemDone(AddedItem(ingredients[idx], product_name, price))
     \/ \E e \in Exceptions :
          /\ calls' = Append(calls, Called("click", None, Some(e)))
          /\ ItemDone(ErrorItem(ingredients[idx], e))
          /\ UNCHANGED cart
  /\ UNCHANGED <<ingredients, idx, playwright_running, context_open, navs>>

\* Mutant of ItemSleep: an ingredient that was not added is searched once more.
ItemSleepRetry ==
  /\ UNCHANGED <<session_vars, store_vars, text_vars>>
  /\ pc = "sleep"
  /\ IF ~result.items[Len(result.items)].success /\ Len(result.items) = idx
     THEN idx' = idx /\ pc' = "item_goto"
     ELSE IF idx < Len(ingredients)
     THEN idx' = idx + 1 /\ pc' = "item_goto"
     ELSE idx' = idx /\ pc' = "probe_goto"
  /\ calls' = <<>>
  /\ UNCHANGED <<ingredients, result, dom, product_name, price,
                 playwright_running, context_open, cart, navs, response>>

\* add_items_to_cart: the delay between items, then the next ingredient or the
\* end of the loop.
ItemSleep ==
  /\ UNCHANGED <<session_vars, store_vars, text_vars>>
  /\ pc = "sleep"
  /\ IF idx < Len(ingredients)
     THEN idx' = idx + 1 /\ pc' = "item_goto"
     ELSE idx' = idx /\ pc' = "probe_goto"
  /\ calls' = <<>>
  /\ UNCHANGED <<ingredients, result, dom, product_name, price,
                 playwright_running, context_open, cart, navs, response>>

\* The cart-total probe: page.goto(HEB_CART_URL).  What it raises is logged
\* and the result is returned as it is.
ProbeGoto ==
  /\ UNCHANGED <<session_vars, store_vars, text_vars>>
  /\ pc = "probe_goto"
  /\ \/ /\ calls' = <<Called("goto_cart", None, None)>>
        /\ pc' = "probe_wait"
        /\ UNCHANGED <<result, response, playwright_running, context_open>>
     \/ \E e \in Exceptions :
          /\ calls' = <<Called("goto_cart", None, Some(e))>>
          /\ Return(result)
  /\ navs' = Append(navs, 0)
  /\ UNCHANGED <<ingredients, idx, dom, product_name, price, cart>>

\* The probe: page.wait_for_load_state("networkidle")
ProbeWait ==
  /\ UNCHANGED <<session_vars, store_vars, text_vars>>
  /\ pc = "probe_wait"
  /\ \/ /\ calls' = Append(calls, Called("wait_for_load_state", None, None))
        /\ pc' = "probe_read"
        /\ UNCHANGED <<result, response, playwright_running, context_open>>
     \/ \E e \in Exceptions :
          /\ calls' = Append(calls,
                             Called("wait_for_load_state", None, Some(e)))
          /\ Return(result)
  /\ UNCHANGED <<ingredients, idx, dom, product_name, price, cart, navs>>

\* Mutant of ProbeAmount: a total that does not parse is stored as zero.
ProbeAmountOrZero(total) ==
  IF ReadAmount(total) = "ValueError" THEN Some([mant |-> 0, exp |-> 0])
  ELSE ReadAmount(total)

\* The amount the probe stores for the total element's text: none when the
\* text holds no number or float() raises on it.
ProbeAmount(total) ==
  IF ReadAmount(total) = "ValueError" THEN None ELSE ReadAmount(total)

\* The probe: the total element's count and text, and the amount in it.
ProbeRead ==
  /\ UNCHANGED <<session_vars, store_vars, text_vars>>
  /\ pc = "probe_read"
  /\ \/ \E total \in CartTotals :
          /\ calls' = Append(calls, Called("text_content", total, None))
          /\ Return(IF ProbeAmount(total) = None THEN result
                    ELSE [result EXCEPT !.cart_total = ProbeAmount(total)])
     \/ \E e \in Exceptions :
          /\ calls' = Append(calls, Called("text_content", None, Some(e)))
          /\ Return(result)
  /\ UNCHANGED <<ingredients, idx, dom, product_name, price, cart, navs>>

Next ==
  \/ Call
  \/ StartPlaywright
  \/ LaunchContext
  \/ GetPage
  \/ ItemGoto
  \/ ItemWait
  \/ ItemFind
  \/ ItemExtract
  \/ ItemClick
  \/ ItemSleep
  \/ ProbeGoto
  \/ ProbeWait
  \/ ProbeRead

Spec == Init /\ [][Next]_vars

\* The run is scheduled until it ends: the event loop resumes the coroutine
\* when the call it awaits returns or raises, and every awaited call does
\* (navigations, waits and clicks have timeouts, the sleeps are finite).
LiveSpec == Spec /\ WF_vars(Next)

\* ------------------------------------------------- the session tool calls

\* What an awaited call of the session tools raises: a timeout of the
\* navigation or launch.
SessionErrors == {TimeoutError}

\* The contexts open on the profile directory, whoever opened them.
OpenContexts == Cardinality({d \in Calls : tool_call[d].context})

\* The call did op.
Did(r, op) == [r EXCEPT !.did = @ \cup {op}]

\* The tool returns reply.
Finish(r, reply) == [r EXCEPT !.pc = "done", !.reply = Some(reply)]

HEBSessionStatus(logged_in, session_exists, message) ==
  [logged_in |-> logged_in, session_exists |-> session_exists,
   message |-> message]

\* Mutant of SessionExists: a directory counts as a session even when empty.
SessionExistsAnyDir(p) == p # "absent"

\* check_session_status: HEB_SESSION_DIR.exists() and any(iterdir()), for a
\* directory the process may list.
SessionExists(p) == p = "used"

\* check_session_status: the except clause's status.
StatusError(e) ==
  HEBSessionStatus(FALSE, TRUE, "Could not verify session status: " \o str(e))

\* server.py: what prepwise_heb_login returns.
LoginOpened ==
  [success |-> TRUE,
   message |-> "HEB login page opened in browser. Please log in manually."]
LoginFailed(text) == [success |-> FALSE, error |-> text]

\* An awaited call of r raised e: where the exception goes.  In
\* check_session_status the inner finally runs when the context was got, and
\* the outer except makes a status of whatever arrives; in open_heb_login the
\* except clause runs when the context was got, and an exception of
\* get_browser_context or of the clause itself goes to the tool; in
\* add_items_to_cart it goes to the tool.
Raised(r, e) ==
  LET x == [r EXCEPT !.exc = Some(e)]
  IN CASE r.tool = "check_session_status" ->
            IF r.pc \in {"new_page", "goto", "settle", "count"}
            THEN [x EXCEPT !.pc = "close"]
            ELSE Finish(x, StatusError(e))
       [] r.tool = "open_heb_login" ->
            IF r.pc \in {"new_page", "goto"}
            THEN [x EXCEPT !.pc = "close"]
            ELSE Finish(x, LoginFailed(str(e)))
       [] r.tool = "add_items_to_cart" -> Finish(x, ErrorResponse(e))

\* After playwright.stop(): the finally clause of check_session_status ends
\* (the pending return or exception goes on), or open_heb_login raises its
\* RuntimeError.
Stopped(r) ==
  CASE r.tool = "check_session_status" ->
         IF r.exc = None THEN Finish(r, r.ret[1])
         ELSE Finish(r, StatusError(r.exc[1]))
    [] r.tool = "open_heb_login" ->
         Finish(r, LoginFailed("Failed to open HEB login: " \o str(r.exc[1])))

\* Call c is the next one to be made.
NextCall(c) ==
  /\ tool_call[c].pc = "idle"
  /\ c > 1 => tool_call[c - 1].pc # "idle"

\* get_browser_context up to its first await: the directories are made.
EnterContext(r) == [Did(r, "mkdir") EXCEPT !.pc = "start"]


\* check_session_status, to its first await: the cheap path, or into
\* get_browser_context (whose mkdir finds the directory there).  iterdir()
\* is called outside the try.
check_session_status(c) ==
  /\ NextCall(c)
  /\ LET r == [IdleCall EXCEPT !.tool = "check_session_status",
                               !.seen = Some(profile)]
     IN tool_call' = [tool_call EXCEPT ![c] =
          CASE profile = "unreadable" ->
                 Finish([Did(r, "iterdir") EXCEPT
                           !.exc = Some(PermissionError)],
                        [raised |-> PermissionError])
            [] profile # "unreadable" /\ ~SessionExists(profile) ->
                 Finish(r, HEBSessionStatus(FALSE, FALSE,
                        "No HEB session found. You'll need to log in."))
            [] OTHER -> EnterContext(r)]
  /\ UNCHANGED <<profile, run_vars, store_vars, text_vars>>

\* open_heb_login, to its first await, in get_browser_context.
open_heb_login(c) ==
  /\ NextCall(c)
  /\ tool_call' = [tool_call EXCEPT ![c] =
       EnterContext([IdleCall EXCEPT !.tool = "open_heb_login"])]
  /\ profile' = IF profile = "absent" THEN "empty" ELSE profile
  /\ UNCHANGED <<run_vars, store_vars, text_vars>>

\* add_items_to_cart, to its first await, in get_browser_context.
add_items_to_cart(c) ==
  /\ NextCall(c)
  /\ tool_call' = [tool_call EXCEPT ![c] =
       EnterContext([IdleCall EXCEPT !.tool = "add_items_to_cart"])]
  /\ profile' = IF profile = "absent" THEN "empty" ELSE profile
  /\ UNCHANGED <<run_vars, store_vars, text_vars>>

\* get_browser_context: async_playwright().start(), a driver of its own for
\* every call.
DriverStart(c) ==
  /\ tool_call[c].pc = "start"
  /\ LET r == Did(tool_call[c], "start")
     IN \/ tool_call' = [tool_call EXCEPT ![c] =
                           [r EXCEPT !.driver = TRUE, !.pc = "launch"]]
        \/ \E e \in SessionErrors :
             tool_call' = [tool_call EXCEPT ![c] = Raised(r, e)]
  /\ UNCHANGED <<profile, run_vars, store_vars, text_vars>>

\* get_browser_context: launch_persistent_context(user_data_dir), whatever is
\* open on the directory already; whether the launch then succeeds is the
\* browser's choice.  The browser writes its profile.
ContextLaunch(c) ==
  /\ tool_call[c].pc = "launch"
  /\ LET r == [Did(tool_call[c], "launch") EXCEPT
                 !.open_at_launch = Some(OpenContexts)]
     IN \/ /\ profile # "unreadable"
           /\ tool_call' = [tool_call EXCEPT ![c] =
                              [r EXCEPT !.context = TRUE, !.pc = "new_page"]]
           /\ profile' = "used"
        \/ /\ \E e \in SessionErrors :
                tool_call' = [tool_call EXCEPT ![c] = Raised(r, e)]
           /\ UNCHANGED profile
  /\ UNCHANGED <<run_vars, store_vars, text_vars>>

\* context.pages[0] if context.pages else await context.new_page()
PageGet(c) ==
  /\ tool_call[c].pc = "new_page"
  /\ LET r == tool_call[c]
     IN \/ tool_call' = [tool_call EXCEPT ![c] =
             [r EXCEPT !.pc = IF r.tool = "add_items_to_cart"
                              THEN "run" ELSE "goto"]]
        \/ \E e \in SessionErrors :
             tool_call' = [tool_call EXCEPT ![c] = Raised(r, e)]
  /\ UNCHANGED <<profile, run_vars, store_vars, text_vars>>

\* page.goto(HEB_BASE_URL) of check_session_status, page.goto(HEB_LOGIN_URL)
\* of open_heb_login, which then returns its message with the session open.
PageGoto(c) ==
  /\ tool_call[c].pc = "goto"
  /\ LET r == Did(tool_call[c], "goto")
     IN \/ tool_call' = [tool_call EXCEPT ![c] =
             IF r.tool = "open_heb_login" THEN Finish(r, LoginOpened)
             ELSE [r EXCEPT !.pc = "settle"]]
        \/ \E e \in SessionErrors :
             tool_call' = [tool_call EXCEPT ![c] = Raised(r, e)]
  /\ UNCHANGED <<profile, run_vars, store_vars, text_vars>>

\* check_session_status: page.wait_for_load_state("networkidle")
StatusSettle(c) ==
  /\ tool_call[c].pc = "settle"
  /\ LET r == tool_call[c]
     IN \/ tool_call' = [tool_call EXCEPT ![c] = [r EXCEPT !.pc = "count"]]
        \/ \E e \in SessionErrors :
             tool_call' = [tool_call EXCEPT ![c] = Raised(r, e)]
  /\ UNCHANGED <<profile, run_vars, store_vars, text_vars>>

\* check_session_status: the count of the logged-in indicator, and the return
\* of the status, which enters the finally clause.
StatusCount(c) ==
  /\ tool_call[c].pc = "count"
  /\ LET r == tool_call[c]
     IN \/ \E logged_in \in BOOLEAN :
             tool_call' = [tool_call EXCEPT ![c] =
               [r EXCEPT !.pc = "close",
                         !.ret = Some(HEBSessionStatus(logged_in, TRUE,
                           IF logged_in THEN "You are logged in to HEB."
                           ELSE "Session exists but you may need to log in again."))]]
        \/ \E e \in SessionErrors :
             tool_call' = [tool_call EXCEPT ![c] = Raised(r, e)]
  /\ UNCHANGED <<profile, run_vars, store_vars, text_vars>>

\* context.close(), in the finally clause of check_session_status and the
\* except clause of open_heb_login.
ContextClose(c) ==
  /\ tool_call[c].pc = "close"
  /\ LET r == Did(tool_call[c], "close")
     IN \/ tool_call' = [tool_call EXCEPT ![c] =
                           [r EXCEPT !.context = FALSE, !.pc = "stop"]]
        \/ \E e \in SessionErrors :
             tool_call' = [tool_call EXCEPT ![c] = Raised(r, e)]
  /\ UNCHANGED <<profile, run_vars, store_vars, text_vars>>

\* playwright.stop(), after context.close().
DriverStop(c) ==
  /\ tool_call[c].pc = "stop"
  /\ LET r == Did(tool_call[c], "stop")
     IN \/ tool_call' = [tool_call EXCEPT ![c] =
                           Stopped([r EXCEPT !.driver = FALSE])]
        \/ \E e \in SessionErrors :
             tool_call' = [tool_call EXCEPT ![c] = Raised(r, e)]
  /\ UNCHANGED <<profile, run_vars, store_vars, text_vars>>

\* add_items_to_cart from its loop to its return (the run that Next takes
\* step by step): nothing in it raises past the function or touches the
\* session.
CartRun(c) ==
  /\ tool_call[c].pc = "run"
  /\ tool_call' = [tool_call EXCEPT ![c] =
       Finish(Did(tool_call[c], "goto"), [returned |-> "HEBCartResult"])]
  /\ UNCHANGED <<profile, run_vars, store_vars, text_vars>>

SessionNext ==
  \E c \in Calls :
    \/ check_session_status(c)
    \/ open_heb_login(c)
    \/ add_items_to_cart(c)
    \/ DriverStart(c)
    \/ ContextLaunch(c)
    \/ PageGet(c)
    \/ PageGoto(c)
    \/ StatusSettle(c)
    \/ StatusCount(c)
    \/ ContextClose(c)
    \/ DriverStop(c)
    \/ CartRun(c)

SessionInit == (\E p \in ProfileStates : InitWith(p)) /\ RunInit

\* The tool calls on the browser session, each taking its steps in any order
\* with the others: the event loop runs one coroutine until its next await.
SessionSpec == SessionInit /\ [][SessionNext]_vars

\* ------------------------------------------------------- the JSON stores

\* JSONStore.load: the default when there is no file, else the stored model.
\* (save writes model_dump() as JSON: text keys and integers, which
\* model_validate reads back as they were.)
load(file, default_factory) ==
  IF file = None THEN default_factory ELSE file[1]

\* A dict: a function on its keys.
EmptyDict == [k \in {} |-> 0]
Pop(d, key) == [k \in DOMAIN d \ {key} |-> d[k]]
Put(d, key, v) == [k \in DOMAIN d \cup {key} |-> IF k = key THEN v ELSE d[k]]

\* ---------------------------------------------------------- preferences

\* models/preferences.py: PreferenceProfile(), with MacroTargets().
PreferenceProfile ==
  [ingredients |-> EmptyDict, cuisines |-> EmptyDict,
   cooking_methods |-> EmptyDict,
   macro_targets |-> [daily_calories |-> 2000, daily_protein_g |-> 150,
                      daily_carbs_g |-> 200, daily_fat_g |-> 70],
   dietary_restrictions |-> <<>>, setup_completed |-> FALSE]

\* str.upper() of one character.
Upper(c) ==
  IF \E i \in 1..26 : LowerLetters[i] = c
  THEN UpperLetters[CHOOSE i \in 1..26 : LowerLetters[i] = c]
  ELSE c

IsLetter(c) == \E i \in 1..26 : c = LowerLetters[i] \/ c = UpperLetters[i]

\* str.title(): a letter after a letter in lower case, any other letter in
\* upper case.
Title(s) ==
  [i \in 1..Len(s) |->
     IF i > 1 /\ IsLetter(s[i - 1]) THEN Lower(s[i]) ELSE Upper(s[i])]

\* str.strip()
Whitespace == {" ", "\t", "\n"}

\* item.lower().strip().replace(" ", "_")
ItemKey(item) ==
  LET stripped == Strip([i \in 1..Len(item) |-> Lower(item[i])], Whitespace)
  IN [i \in 1..Len(stripped) |->
        IF stripped[i] = " " THEN "_" ELSE stripped[i]]

\* item.strip().title()
ItemDisplay(item) == Title(Strip(item, Whitespace))

\* The item names and the categories and ratings a caller passes.
Items == { <<" ", "R", "e", "d", " ", "O", "n", "i", "o", "n">>,
           <<"r", "e", "d", "_", "o", "n", "i", "o", "n">> }
Categories == {"ingredient", "cuisine", "cooking_method", "dessert"}
Ratings == -3..3

\* item_key and item_display of update_preference, for each item name.
item_key == [item \in Items |-> ItemKey(item)]
item_display == [item \in Items |-> ItemDisplay(item)]

\* Mutant of RatingInRange: the bounds are off by one.
RatingInRangeLoose(rating) == ~(rating < -3 \/ rating > 3)

\* update_preference: the rating check.
RatingInRange(rating) == ~(rating < -2 \/ rating > 2)

\* Mutant of SetRating: a zero rating is stored like any other.
SetRatingStoresZero(d, key, rating) == Put(d, key, rating)

\* update_preference: pop on a zero rating, else the assignment.
SetRating(d, key, rating) ==
  IF rating = 0 THEN Pop(d, key) ELSE Put(d, key, rating)

\* update_preference on the stored file: the ValueError it raises, or the
\* profile it saves and returns.
update_preference(file, category, item, rating) ==
  LET prefs == load(file, PreferenceProfile)
  IN IF ~RatingInRange(rating)
     THEN [raised |-> "Rating must be between -2 and +2"]
     ELSE CASE category = "ingredient" ->
                 [saved |-> [prefs EXCEPT !.ingredients =
                               SetRating(@, item_key[item], rating)]]
            [] category = "cuisine" ->
                 [saved |-> [prefs EXCEPT !.cuisines =
                               SetRating(@, item_display[item], rating)]]
            [] category = "cooking_method" ->
                 [saved |-> [prefs EXCEPT !.cooking_methods =
                               SetRating(@, item_key[item], rating)]]
            [] OTHER -> [raised |-> "Unknown category"]

\* server.py: prepwise_update_preference(category, item, rating).
prepwise_update_preference ==
  /\ \E category \in Categories, item \in Items, rating \in Ratings :
       LET out == update_preference(prefs_file, category, item, rating)
           ok == "saved" \in DOMAIN out
       IN /\ prefs_file' = IF ok THEN Some(out.saved) ELSE prefs_file
          /\ pref_call' = Some(
               [category |-> category, item |-> item, rating |-> rating,
                reply |-> IF ok
                          THEN [success |-> TRUE, preferences |-> out.saved]
                          ELSE [success |-> FALSE, error |-> out.raised]])
  /\ UNCHANGED <<run_vars, session_vars, sites_file, site_call,
                 text_vars>>

PrefNext == prepwise_update_preference

\* Calls of prepwise_update_preference, one after another, from no file.
PrefSpec == Init /\ [][PrefNext]_vars

\* -------------------------------------------------------- favorite sites

\* A FavoriteSite (added_at, the time of creation, is left out: nothing
\* reads it).
FavoriteSite(url, name) == [url |-> url, name |-> name]

DEFAULT_FAVORITE_SITES ==
  << FavoriteSite(<<"h", "t", "t", "p", "s", ":", "/", "/", "w", "w", "w",
      ".", "b", "u", "d", "g", "e", "t", "b", "y", "t", "e", "s", ".", "c",
      "o", "m">>,
                  <<"B", "u", "d", "g", "e", "t", " ", "B", "y", "t", "e",
                      "s">>),
     FavoriteSite(<<"h", "t", "t", "p", "s", ":", "/", "/", "w", "w", "w",
         ".", "a", "l", "l", "r", "e", "c", "i", "p", "e", "s", ".", "c",
         "o", "m">>,
                  <<"A", "l", "l", "R", "e", "c", "i", "p", "e", "s">>),
     FavoriteSite(<<"h", "t", "t", "p", "s", ":", "/", "/", "w", "w", "w",
         ".", "s", "e", "r", "i", "o", "u", "s", "e", "a", "t", "s", ".",
         "c", "o", "m">>,
                  <<"S", "e", "r", "i", "o", "u", "s", " ", "E", "a", "t",
                      "s">>) >>

\* FavoriteSites(sites=DEFAULT_FAVORITE_SITES.copy()), the store's default.
DefaultFavoriteSites == [sites |-> DEFAULT_FAVORITE_SITES]

\* str.lower()
LowerText(s) == [i \in 1..Len(s) |-> Lower(s[i])]

\* str.rstrip(chars)
RStrip(s, chars) ==
  LET keep == {i \in 1..Len(s) : s[i] \notin chars}
  IN IF keep = {} THEN <<>>
     ELSE SubSeq(s, 1, CHOOSE m \in keep : \A n \in keep : n <= m)

\* str.startswith(prefix)
StartsWith(s, prefix) ==
  Len(s) >= Len(prefix) /\ SubSeq(s, 1, Len(prefix)) = prefix

Http == <<"h", "t", "t", "p">>
Https == <<"h", "t", "t", "p", "s", ":", "/", "/">>

\* add_favorite_site: url.strip().rstrip("/"), with https:// put before what
\* does not start with "http".
NormalizeAdded(url) ==
  LET u == RStrip(Strip(url, Whitespace), {"/"})
  IN IF StartsWith(u, Http) THEN u ELSE Https \o u

\* remove_favorite_site: url.strip().rstrip("/").lower(), likewise.
NormalizeRemoved(url) ==
  LET u == LowerText(RStrip(Strip(url, Whitespace), {"/"}))
  IN IF StartsWith(u, Http) THEN u ELSE Https \o u

\* The URLs and the name a caller passes.
Urls ==
  { <<"w", "w", "w", ".", "B", "u", "d", "g", "e", "t", "B", "y", "t", "e",
      "s", ".", "c", "o", "m", "/">>,
    <<" ", "h", "t", "t", "p", "s", ":", "/", "/", "E", "x", ".", "c", "o",
        "m", "/", " ">>,
    <<"h", "t", "t", "p", "s", ":", "/", "/", "e", "x", ".", "c", "o", "m">>,
    <<"H", "T", "T", "P", ":", "/", "/", "e", "x", ".", "c", "o", "m">>,
    <<"h", "t", "t", "p", "s", ":", "/", "/", "w", "w", "w", ".", "a", "l",
      "l", "r", "e", "c", "i", "p", "e", "s", ".", "c", "o", "m", "/">> }
SiteName == <<" ", "E", "x", " ">>

\* The normalized forms of the URLs passed, and the lower-case form of every
\* URL that is stored or compared.
added_url == [url \in Urls |-> NormalizeAdded(url)]
removed_url == [url \in Urls |-> NormalizeRemoved(url)]
KnownUrls ==
  {added_url[url] : url \in Urls} \cup {removed_url[url] : url \in Urls}
    \cup {DEFAULT_FAVORITE_SITES[k].url : k \in 1..3}
lower == [u \in KnownUrls |-> LowerText(u)]

\* Mutant of AlreadyExists: the URLs are compared as they are written.
AlreadyExistsExact(sites, url) ==
  \E k \in 1..Len(sites.sites) : sites.sites[k].url = url

\* add_favorite_site: url.lower() in existing_urls
AlreadyExists(sites, url) ==
  \E k \in 1..Len(sites.sites) : lower[sites.sites[k].url] = lower[url]

\* What a favorite-site tool returns.
SitesReply(sites) == [success |-> TRUE, sites |-> sites.sites]

\* server.py: prepwise_add_favorite_site(url, name), with add_favorite_site.
prepwise_add_favorite_site ==
  /\ \E url \in Urls :
       LET sites == load(sites_file, DefaultFavoriteSites)
           u == added_url[url]
           new_site == FavoriteSite(u, Strip(SiteName, Whitespace))
           added == [sites EXCEPT !.sites = Append(@, new_site)]
       IN IF AlreadyExists(sites, u)
          THEN /\ UNCHANGED sites_file
               /\ site_call' = Some([tool |-> "add", url |-> url,
                                     wrote |-> FALSE,
                                     reply |-> SitesReply(sites)])
          ELSE /\ sites_file' = Some(added)
               /\ site_call' = Some([tool |-> "add", url |-> url,
                                     wrote |-> TRUE,
                                     reply |-> SitesReply(added)])
  /\ UNCHANGED <<run_vars, session_vars, prefs_file, pref_call,
                 text_vars>>

\* server.py: prepwise_remove_favorite_site(url), with remove_favorite_site,
\* which saves whether or not a site went.
prepwise_remove_favorite_site ==
  /\ \E url \in Urls :
       LET sites == load(sites_file, DefaultFavoriteSites)
           left == [sites EXCEPT !.sites =
                      SelectSeq(@, LAMBDA st : lower[st.url] # removed_url[url])]
       IN /\ sites_file' = Some(left)
          /\ site_call' = Some([tool |-> "remove", url |-> url,
                                wrote |-> TRUE, reply |-> SitesReply(left)])
  /\ UNCHANGED <<run_vars, session_vars, prefs_file, pref_call,
                 text_vars>>

SitesNext ==
  \/ prepwise_add_favorite_site
  \/ prepwise_remove_favorite_site

\* Calls of the two favorite-site tools, one after another, from no file.
SitesSpec == Init /\ [][SitesNext]_vars

\* ------------------------------------------------------ the text functions

\* The ingredient texts a caller passes to the two text functions: an
\* optional blank, an optional quantity, an optional unit and a name (or
\* none).
Leads ==
  { <<>>,
    <<" ">> }
Quantities ==
  { <<>>,
    <<"2", " ">>,
    <<"1", "/", "2", " ">> }
UnitWords ==
  { <<>>,
    <<"l", "b", "s", " ">> }
Names ==
  { <<"c", "h", "i", "c", "k", "e", "n">>,
    <<"r", "e", "d", " ", "o", "n", "i", "o", "n">>,
    <<"e", "x", "t", "r", "a", " ", "v", "i", "r", "g", "i", "n", " ", "o",
      "l", "i", "v", "e", " ", "o", "i", "l">>,
    <<"a", "l", "l", "-", "p", "u", "r", "p", "o", "s", "e", " ", "f", "l",
      "o", "u", "r">>,
    <<"S", "e", "a", " ", "S", "a", "l", "t">>,
    <<>> }
Texts ==
  {l \o q \o u \o n :
     l \in Leads, q \in Quantities, u \in UnitWords, n \in Names}

\* _clean_ingredient_for_search(ingredient) is called.
CleanCall ==
  /\ text_call = None
  /\ \E t \in Texts :
       text_call' = Some([ingredient |-> t,
                          cleaned |-> _clean_ingredient_for_search(t),
                          recleaned |-> None, suggestion |-> None])
  /\ UNCHANGED <<run_vars, session_vars, store_vars>>

\* _clean_ingredient_for_search is called on what it returned.
CleanAgainCall ==
  /\ text_call # None
  /\ text_call[1].recleaned = None
  /\ text_call' = Some([text_call[1] EXCEPT
       !.recleaned = Some(_clean_ingredient_for_search(text_call[1].cleaned))])
  /\ UNCHANGED <<run_vars, session_vars, store_vars>>

\* _get_search_suggestion(ingredient) is called.
SuggestionCall ==
  /\ text_call # None
  /\ text_call[1].suggestion = None
  /\ text_call' = Some([text_call[1] EXCEPT
       !.suggestion =
          Some(_get_search_suggestion(text_call[1].ingredient))])
  /\ UNCHANGED <<run_vars, session_vars, store_vars>>

TextNext ==
  \/ CleanCall
  \/ CleanAgainCall
  \/ SuggestionCall

\* Calls of the two text functions on one ingredient text.
TextSpec == Init /\ [][TextNext]_vars

\* ------------------------------------------------------------------ claims

\* The tool call returned a result (not an error).
IsResult == response # None /\ "items" \in DOMAIN response[1]

\* The positions of items whose entries satisfy P.
Matching(items, P(_)) == {k \in 1..Len(items) : P(items[k])}

\* calls holds the calls made for the ingredient at idx (not the probe's).
ItemCalls == calls # <<>> /\ calls[1].call = "goto"

\* The ingredient at idx has its entry in the result, and calls is still the
\* calls made for it.
ItemJustDone == ItemCalls /\ Len(result.items) = idx

\* C1: in every returned result, totalAdded + totalNotFound + totalErrors is
\* the number of items, which is the number of input ingredients.
C1_CountersSumToItems ==
  IsResult =>
    LET r == response[1]
    IN /\ r.total_added + r.total_not_found + r.total_errors = Len(r.items)
       /\ Len(r.items) = Len(ingredients)

\* C1 witness: a result over two ingredients with mixed outcomes.
C1_Witness ==
  /\ IsResult
  /\ Len(ingredients) = 2
  /\ response[1].total_added = 1
  /\ response[1].total_errors = 1

\* C2: in every returned result each counter is the count recomputed from the
\* items: added = success, errors = failed with error set (not None),
\* not found = failed with error unset (None).
C2_CountersMatchItems ==
  IsResult =>
    LET r == response[1]
    IN /\ r.total_added =
            Cardinality(Matching(r.items, LAMBDA it : it.success))
       /\ r.total_errors =
            Cardinality(Matching(r.items,
                                 LAMBDA it : ~it.success /\ it.error # None))
       /\ r.total_not_found =
            Cardinality(Matching(r.items,
                                 LAMBDA it : ~it.success /\ it.error = None))

\* C3: the returned items are as many as the ingredients, and the k-th item's
\* search_term is the k-th ingredient as it was passed.
C3_OrderPreserved ==
  IsResult =>
    /\ Len(response[1].items) = Len(ingredients)
    /\ \A k \in 1..Len(ingredients) :
         response[1].items[k].search_term = ingredients[k]

\* C3 witness: two different ingredients, with different outcomes, each
\* changed by the cleaning.
C3_Witness ==
  /\ IsResult
  /\ Len(ingredients) = 2
  /\ ingredients[1] # ingredients[2]
  /\ response[1].items[1].success
  /\ ~response[1].items[2].success
  /\ \A k \in 1..2 : search_term[ingredients[k]] # ingredients[k]

\* An automation failure happened while an ingredient was processed: a call
\* made for it raised, or its result is a failure.
ItemFailed ==
  \/ ItemCalls /\ \E n \in 1..Len(calls) : calls[n].exc # None
  \/ \E k \in 1..Len(result.items) : ~result.items[k].success

\* Every ingredient was searched for and has its entry in the result.
AllProcessed ==
  /\ Len(result.items) = Len(ingredients)
  /\ \A k \in 1..Len(ingredients) : \E n \in 1..Len(navs) : navs[n] = k

\* The call returned the result, with an entry for every ingredient.
FullResult ==
  /\ IsResult
  /\ response[1].items = result.items
  /\ AllProcessed

\* C4: once an ingredient failed, the run still searches for every
\* ingredient and returns a result with an entry for each.
C4_BadItemNeverAborts == [](ItemFailed => <>FullResult)

\* C4 witness: the first of two ingredients failed on an exception, the
\* second was added, and the result was returned.
C4_Witness ==
  /\ FullResult
  /\ Len(ingredients) = 2
  /\ response[1].items[1].error # None
  /\ response[1].items[2].success

\* C5: when the session cannot be opened the call raises, nothing was
\* searched and no result is produced; the tool returns a result or an error,
\* never both.
C5_SessionFailureIsFatal ==
  /\ ~context_open =>
        navs = <<>> /\ calls = <<>> /\ result.items = <<>> /\ ~IsResult
  /\ (pc = "raised" /\ ~context_open) =>
        response # None /\ DOMAIN response[1] = {"error"}
  /\ response # None =>
        ~({"error", "items"} \subseteq DOMAIN response[1])
  /\ response # None <=> pc \in {"raised", "returned"}

\* C5 witness: the context could not be launched and the tool returned the
\* error.
C5_Witness ==
  /\ pc = "raised"
  /\ playwright_running
  /\ ~context_open
  /\ response # None
  /\ "error" \in DOMAIN response[1]

\* The wait for a product tile timed out.
WaitTimedOut ==
  \E n \in 1..Len(calls) :
    calls[n].call = "wait_for_selector" /\ calls[n].exc = Some(TimeoutError)

\* The page held no add-to-cart button.
NoButton ==
  \E n \in 1..Len(calls) : calls[n].call = "count" /\ calls[n].arg = Some(0)

\* C6: an item whose wait timed out, or whose page held no add-to-cart
\* button, has success false, error unset and a non-empty suggestion, and its
\* add-to-cart button was never clicked.
C6_NotFoundPath ==
  (ItemCalls /\ (WaitTimedOut \/ NoButton)) =>
    /\ ItemJustDone
    /\ ~result.items[idx].success
    /\ result.items[idx].error = None
    /\ result.items[idx].suggestion # None
    /\ Len(result.items[idx].suggestion[1]) > 0
    /\ \A n \in 1..Len(calls) : calls[n].call # "click"

\* C6 witness: the page of the first ingredient held no button, and the wait
\* of the second, which cleans to the empty string, timed out.
C6_Witness ==
  /\ ItemJustDone
  /\ idx = 2
  /\ result.items[1].suggestion # None
  /\ WaitTimedOut
  /\ search_term[ingredients[2]] = <<>>

\* A call made for the ingredient raised something other than the timeout of
\* the wait for a product tile.
RaisedUnexpected ==
  \E n \in 1..Len(calls) :
    /\ calls[n].exc # None
    /\ ~(calls[n].call = "wait_for_selector"
         /\ calls[n].exc = Some(TimeoutError))

\* C7: an exception of an item's navigation, wait, button lookup or click
\* that is not the wait's timeout gives success false, error set and
\* suggestion unset.
C7_ExceptionsBecomeErrors ==
  (ItemCalls /\ RaisedUnexpected) =>
    /\ ItemJustDone
    /\ ~result.items[idx].success
    /\ result.items[idx].error # None
    /\ result.items[idx].suggestion = None

\* C8: an item whose navigation, button lookup or click raised has success
\* false, a non-empty error message and no suggestion, whatever was raised.
C8_ErrorMessageNonEmpty ==
  (ItemCalls /\ \E n \in 1..Len(calls) :
      calls[n].exc # None /\ calls[n].call \in {"goto", "count", "click"}) =>
    /\ ItemJustDone
    /\ ~result.items[idx].success
    /\ result.items[idx].error # None
    /\ result.items[idx].error[1] # ""
    /\ result.items[idx].suggestion = None

\* C9: no item has both error and suggestion, and an item with success true
\* has neither.
C9_ErrorXorSuggestion ==
  \A k \in 1..Len(result.items) :
    LET it == result.items[k]
    IN /\ ~(it.error # None /\ it.suggestion # None)
       /\ it.success => it.error = None /\ it.suggestion = None

\* C9 witness: one item ended with an error and another with a suggestion.
C9_Witness ==
  /\ Len(result.items) = 2
  /\ result.items[1].error # None
  /\ result.items[2].suggestion # None

\* C10: an item with success false has product_name and price unset, and
\* every item has quantity 1.
C10_NameAndPriceOnlyOnSuccess ==
  \A k \in 1..Len(result.items) :
    LET it == result.items[k]
    IN /\ it.quantity = 1
       /\ ~it.success => it.product_name = None /\ it.price = None

\* C10 witness: the click failed after name and price had been read.
C10_Witness ==
  /\ ItemJustDone
  /\ ~result.items[idx].success
  /\ \E n \in 1..Len(calls) : calls[n].call = "click" /\ calls[n].exc # None
  /\ \E n \in 1..Len(calls) :
       /\ calls[n].call = "extract"
       /\ calls[n].arg[1][1] # None
       /\ calls[n].arg[1][2] # None

\* The three counters of a result.
Counters(res) == <<res.total_added, res.total_not_found, res.total_errors>>

\* The run is in the cart-total probe.
InProbe == pc \in {"probe_goto", "probe_wait", "probe_read"}

\* The texts of the total element on which float() raises.
UnparsableTotals == {t \in CartTotals : ReadAmount(t) = "ValueError"}

\* The last call of the probe raised, or the total's text did not parse.
ProbeFailed ==
  /\ calls # <<>>
  /\ calls[1].call = "goto_cart"
  /\ LET last == calls[Len(calls)]
     IN \/ last.exc # None
        \/ /\ last.call = "text_content"
           /\ last.arg \in UnparsableTotals

\* C11: no step of the cart-total probe changes the items or the counters,
\* and when the navigation to the cart, the wait, the read of the total or
\* the parsing of its text fails, add_items_to_cart returns its result with
\* the items and counters it had when the probe started and no cart total.
C11_ProbeFailureContained ==
  [][InProbe =>
       /\ result'.items = result.items
       /\ Counters(result') = Counters(result)
       /\ ProbeFailed' =>
            /\ pc' = "returned"
            /\ result'.cart_total = None
            /\ response' = Some(ResultResponse(
                                  [result EXCEPT !.cart_total = None]))]_vars

\* A run with an ingredient added whose cart total did not parse.
C11_Witness ==
  /\ pc = "returned"
  /\ ProbeFailed
  /\ calls[Len(calls)].exc = None
  /\ result.total_added >= 1
  /\ response[1].cart_total = None

\* C12: from the launch of the context on, through the items, the probe and
\* the return, the driver runs and the context is open; so they are when
\* add_items_to_cart has returned its result.
C12_SessionLeftOpen ==
  pc \notin {"idle", "start_playwright", "launch_context", "raised"} =>
    playwright_running /\ context_open

\* A run that added an ingredient has returned.
C12_Witness ==
  /\ pc = "returned"
  /\ IsResult
  /\ result.total_added >= 1
  /\ playwright_running /\ context_open

\* The search navigations made so far, by ingredient position.
Searches == SelectSeq(navs, LAMBDA n : n # 0)

\* The number of calls of one kind made for the ingredient at idx.
CallCount(kind) == Cardinality({k \in 1..Len(calls) : calls[k].call = kind})

\* The terminal states an item result is in.
Terminal(it) ==
  {t \in {"Found&Added", "NotFound", "Errored"} :
     \/ t = "Found&Added" /\ it.success
     \/ t = "NotFound" /\ ~it.success /\ it.error = None
     \/ t = "Errored" /\ ~it.success /\ it.error # None}

\* C16: the searches made are those of the ingredients 1, 2, ... in order,
\* one each, never one again; an ingredient gets at most one click; every
\* item result is in exactly one terminal state and there is at most one per
\* ingredient reached; at the return every ingredient was searched once.
C16_OneAttemptPerItem ==
  /\ \A k \in 1..Len(Searches) : Searches[k] = k
  /\ Len(Searches) = IF pc = "item_goto" THEN idx - 1 ELSE idx
  /\ CallCount("goto") <= 1 /\ CallCount("click") <= 1
  /\ Len(result.items) \in {idx - 1, idx} \cap Nat
  /\ \A k \in 1..Len(result.items) :
       Cardinality(Terminal(result.items[k])) = 1
  /\ Len(cart) = Cardinality(Matching(result.items, LAMBDA it : it.success))
  /\ pc = "returned" => Len(Searches) = Len(ingredients)

\* A run of two ingredients, the first not added, has returned.
C16_Witness ==
  /\ pc = "returned"
  /\ Len(ingredients) = 2
  /\ ~result.items[1].success
  /\ Searches = <<1, 2>>

\* The calls of one tool.
CallsOf(tool) == {c \in Calls : tool_call[c].tool = tool}

\* C13: a check_session_status call that found the profile directory absent
\* or empty has returned loggedIn=false, sessionExists=false, and has made
\* no directory, started no driver, launched no browser and navigated
\* nowhere.
C13_CheapPath ==
  \A c \in CallsOf("check_session_status") :
    LET r == tool_call[c]
    IN r.seen \in {Some("absent"), Some("empty")} =>
         /\ r.pc = "done"
         /\ r.reply[1].logged_in = FALSE
         /\ r.reply[1].session_exists = FALSE
         /\ r.did = {}
         /\ r.open_at_launch = None
         /\ ~r.driver /\ ~r.context

\* A status check found an empty directory, left by an earlier call whose
\* launch has not happened yet, and the directory is still empty.
C13_Witness ==
  \E c \in CallsOf("check_session_status") :
    /\ tool_call[c].seen = Some("empty")
    /\ tool_call[c].pc = "done"
    /\ profile = "empty"

\* C14: a check_session_status call that has ended has returned a status,
\* never an exception; when something failed after the directory was found
\* non-empty, the status is loggedIn=false, sessionExists=true with the
\* error's text in the message.
C14_StatusNeverRaises ==
  \A c \in CallsOf("check_session_status") :
    LET r == tool_call[c]
    IN r.pc = "done" =>
         /\ "raised" \notin DOMAIN r.reply[1]
         /\ r.exc # None /\ r.seen = Some("used") =>
              r.reply[1] = HEBSessionStatus(FALSE, TRUE,
                "Could not verify session status: " \o str(r.exc[1]))

\* C15: an open_heb_login call that has ended after a failure has reported
\* an error and holds neither a driver nor a context; one that ended without
\* failure reports success and holds both.
C15_LoginFailureReleases ==
  \A c \in CallsOf("open_heb_login") :
    LET r == tool_call[c]
    IN r.pc = "done" =>
         IF r.exc # None
         THEN r.reply[1].success = FALSE /\ ~r.driver /\ ~r.context
         ELSE r.reply[1].success = TRUE /\ r.driver /\ r.context

\* C17: at most one context is open on the profile directory, and no call
\* launches one while another is open.
C17_SingleSession ==
  /\ OpenContexts <= 1
  /\ \A c \in Calls :
       tool_call[c].open_at_launch \in {None, Some(0)}

\* The dict of a category in a profile, and the key update_preference forms
\* of an item in it.
CategoryDict(prefs, category) ==
  CASE category = "ingredient" -> prefs.ingredients
    [] category = "cuisine" -> prefs.cuisines
    [] category = "cooking_method" -> prefs.cooking_methods
CategoryKey(category, item) ==
  IF category = "cuisine" THEN item_display[item] ELSE item_key[item]

\* The arguments of a call are ones update_preference accepts.
ValidCall(c) ==
  /\ c.category \in {"ingredient", "cuisine", "cooking_method"}
  /\ c.rating \in -2..2

\* C18: every rating in the stored profile is -2, -1, +1 or +2, and after an
\* accepted call the category's dict holds no entry for the normalized item
\* when the rating was 0 and exactly the rating when it was not.
C18_StoredRatingsNonZero ==
  /\ prefs_file # None =>
       \A category \in {"ingredient", "cuisine", "cooking_method"} :
         LET d == CategoryDict(prefs_file[1], category)
         IN \A k \in DOMAIN d : d[k] \in {-2, -1, 1, 2}
  /\ pref_call # None /\ ValidCall(pref_call[1]) =>
       /\ prefs_file # None
       /\ LET c == pref_call[1]
              d == CategoryDict(prefs_file[1], c.category)
              key == CategoryKey(c.category, c.item)
          IN IF c.rating = 0 THEN key \notin DOMAIN d
             ELSE key \in DOMAIN d /\ d[key] = c.rating

\* The cuisine " Red Onion" was rated and then set to 0: "Red Onion" is gone,
\* "Red_Onion" and the ingredient "red_onion" keep their ratings.
C18_Witness ==
  /\ pref_call # None /\ prefs_file # None
  /\ pref_call[1].category = "cuisine"
  /\ pref_call[1].item = <<" ", "R", "e", "d", " ", "O", "n", "i", "o", "n">>
  /\ pref_call[1].rating = 0
  /\ prefs_file[1].cuisines = (<<"R", "e", "d", "_", "O", "n", "i", "o", "n">> :> -1)
  /\ prefs_file[1].ingredients = (<<"r", "e", "d", "_", "o", "n", "i", "o", "n">> :> 2)

\* C19: a call with a rating outside -2..+2 or a category other than the
\* three is answered success=false with an error, and the stored profile is
\* after it what it was before.
C19_InvalidCallChangesNothing ==
  [][pref_call' # None /\ ~ValidCall(pref_call'[1]) =>
       /\ prefs_file' = prefs_file
       /\ pref_call'[1].reply.success = FALSE
       /\ "error" \in DOMAIN pref_call'[1].reply]_vars

\* A rating of 3 was refused with a profile stored.
C19_Witness ==
  /\ pref_call # None /\ prefs_file # None
  /\ pref_call[1].rating = 3
  /\ pref_call[1].category = "ingredient"
  /\ pref_call[1].reply.success = FALSE
  /\ prefs_file[1].ingredients = (<<"r", "e", "d", "_", "o", "n", "i", "o", "n">> :> 2)

\* The favorite sites as a load finds them.
StoredSites == load(sites_file, DefaultFavoriteSites).sites

\* No two stored sites have URLs that are equal ignoring case.
NoCaseDuplicates ==
  \A i, j \in 1..Len(StoredSites) :
    i # j => LowerText(StoredSites[i].url) # LowerText(StoredSites[j].url)

\* The step is an add_favorite_site call whose URL, normalized, is stored
\* already, ignoring case.
AddsExisting ==
  /\ site_call' # None
  /\ site_call'[1].tool = "add"
  /\ \E k \in 1..Len(StoredSites) :
       LowerText(StoredSites[k].url) = lower[added_url[site_call'[1].url]]

\* C20: no two stored favorite sites have URLs equal ignoring case, and an
\* add of a URL that after normalization is stored already, ignoring case,
\* returns the list as it was and writes nothing.
C20_NoDuplicateSites ==
  /\ []NoCaseDuplicates
  /\ [][AddsExisting =>
          /\ sites_file' = sites_file
          /\ ~site_call'[1].wrote
          /\ site_call'[1].reply.sites = StoredSites]_vars

\* "www.BudgetBytes.com/" was added while the default site of that URL and a
\* site added earlier were stored: nothing was written.
C20_Witness ==
  /\ site_call # None /\ sites_file # None
  /\ site_call[1].tool = "add"
  /\ site_call[1].url = <<"w", "w", "w", ".", "B", "u", "d", "g", "e", "t", "B", "y", "t", "e",
      "s", ".", "c", "o", "m", "/">>
  /\ ~site_call[1].wrote
  /\ Len(StoredSites) = 4
  /\ StoredSites[4].url = <<"h", "t", "t", "p", "s", ":", "/", "/", "E", "x", ".", "c", "o", "m">>
  /\ StoredSites[4].name = <<"E", "x">>

\* The step is a remove_favorite_site call of the URL that the call before
\* it, an add_favorite_site call, was given.
RemovesAdded ==
  /\ site_call # None /\ site_call[1].tool = "add"
  /\ site_call' # None /\ site_call'[1].tool = "remove"
  /\ site_call'[1].url = site_call[1].url

\* C21: after add_favorite_site(u) and then remove_favorite_site(u), for
\* every URL u whatever its letter case or the spelling of its scheme, no
\* stored site has the URL that was added for u, and the list is what it was
\* before the add when the add stored a site.
C21_AddRemoveRoundTrip ==
  [][RemovesAdded =>
       /\ \A k \in 1..Len(StoredSites') :
            StoredSites'[k].url # added_url[site_call[1].url]
       /\ site_call[1].wrote =>
            StoredSites' = SubSeq(StoredSites, 1, Len(StoredSites) - 1)]_vars

\* The step starts the search of an ingredient: page.goto of a search URL.
StartsSearch == Len(navs') = Len(navs) + 1 /\ navs'[Len(navs')] # 0

\* C22: the ingredients are processed one at a time: the search of ingredient
\* k starts only when the results of the k - 1 ingredients before it are
\* appended and counted, and never is more than one search without its
\* result.
C22_OneItemAtATime ==
  /\ [](Len(Searches) - Len(result.items) \in {0, 1})
  /\ [][StartsSearch =>
          LET k == navs'[Len(navs')]
          IN /\ Len(result.items) = k - 1
             /\ result.total_added + result.total_not_found
                  + result.total_errors = k - 1
             /\ IF k = 1 THEN calls = <<>> /\ navs = <<>>
                ELSE navs[Len(navs)] = k - 1]_vars

\* The search of the second ingredient has started, with the result of the
\* first, which was not found, in the list.
C22_Witness ==
  /\ pc = "item_wait"
  /\ idx = 2
  /\ Searches = <<1, 2>>
  /\ Len(result.items) = 1
  /\ result.total_not_found = 1

\* The position in the result of the k-th item that was added to the cart.
AddedPosition(k) ==
  LET added == Matching(result.items, LAMBDA it : it.success)
  IN CHOOSE i \in added : Cardinality({j \in added : j <= i}) = k

\* C23: the add-to-cart control that was clicked for an added item is that
\* of the product whose name and price the item reports, also on a page
\* whose first tile has no add-to-cart control while a later tile has one.
C23_ClickedIsReported ==
  \A k \in 1..Len(cart) :
    LET it == result.items[AddedPosition(k)]
    IN /\ it.product_name # None => it.product_name = ReadName(cart[k])
       /\ it.price # None => it.price = ReadAmount(cart[k].price_text)

\* What a tile's name and price elements hold, as the extraction reads them.
tile_name == [tile \in {TileChicken, TileSoldOut} |-> ReadName(tile)]
tile_amount ==
  [tile \in {TileChicken, TileSoldOut} |-> ReadAmount(tile.price_text)]

\* The extraction is over and has failed: the first tile holds a name or a
\* price text that the item's locals do not hold.
ExtractionFailed ==
  /\ pc = "item_click"
  /\ \/ product_name = None /\ tile_name[dom[1]] # None
     \/ price = None /\ None # tile_amount[dom[1]]

\* C24: a failure of the extraction of name and price (a price text on which
\* float() raises included) does not end the item: the step after the
\* extraction is the click, and when the click returns the item is a success
\* that holds what the extraction left, the fields it did not get unset.
C24_ExtractionFailureContained ==
  /\ [][pc = "item_extract" => pc' = "item_click" /\ result' = result]_vars
  /\ [][ExtractionFailed =>
          LET click == calls'[Len(calls')]
              it == result'.items[idx]
          IN /\ click.call = "click"
             /\ Len(result'.items) = idx
             /\ click.exc = None =>
                  /\ it.success /\ it.error = None
                  /\ it.product_name = product_name
                  /\ it.price = price]_vars

\* The item's name was not read from a tile that has one (the extraction
\* raised), the click was made, and the item is a success without a name.
C24_Witness ==
  /\ ItemJustDone
  /\ calls[Len(calls)] = Called("click", None, None)
  /\ result.items[idx].success
  /\ result.items[idx].product_name = None
  /\ result.items[idx].price = None
  /\ cart[Len(cart)] = TileChicken

\* The number of navigations to the cart page the run has made.
CartNavigations == Cardinality({k \in 1..Len(navs) : navs[k] = 0})

\* The run is over: add_items_to_cart has returned or raised.
RunOver == pc \in {"returned", "raised"}

\* C25 as stated: every run that obtained a session (the browser context
\* was launched) has, when it is over, navigated to the cart page exactly
\* once, after the last item result was appended and after every search.
C25_ProbeOncePerSession ==
  /\ \A k \in 1..Len(navs) :
       navs[k] = 0 => k = Len(navs) /\ Len(result.items) = Len(ingredients)
  /\ RunOver /\ context_open => CartNavigations = 1

\* C25 amended: every run that obtained a session and its page has, when it
\* returns, navigated to the cart page exactly once, after the last item
\* result was appended and after every search, also when there is no
\* ingredient; a run that raised (it got no session or no page) has not
\* navigated there.
C25_ProbeOncePerRun ==
  /\ \A k \in 1..Len(navs) :
       navs[k] = 0 => k = Len(navs) /\ Len(result.items) = Len(ingredients)
  /\ pc = "returned" => CartNavigations = 1
  /\ pc = "raised" => navs = <<>>
  /\ pc \in {"item_goto", "item_wait", "item_find", "item_extract",
             "item_click", "sleep", "probe_goto"} => CartNavigations = 0

\* A run with no ingredient has returned an empty result after its one
\* navigation to the cart page.
C25_Witness ==
  /\ pc = "returned"
  /\ ingredients = <<>>
  /\ navs = <<0>>
  /\ result.items = <<>>
  /\ Counters(result) = <<0, 0, 0>>

\* C26: when a run of add_items_to_cart ends with an error after its session
\* was obtained, the browser context is closed when control is back with the
\* caller.
C26_AbortClosesSession == pc = "raised" => ~context_open

\* C27: a check_session_status call that launched a browser context (its
\* finally clause was entered) and has returned holds neither the context
\* nor the driver it started, whatever failed on the way, the close of the
\* context included.
C27_StatusClosesSession ==
  \A c \in CallsOf("check_session_status") :
    LET r == tool_call[c]
    IN r.pc = "done" /\ "close" \in r.did => ~r.context /\ ~r.driver

\* An ingredient name that is clean already: not empty, no digit, no
\* parenthesis, no unit word and no prep word, its words one blank apart,
\* and nothing to trim at its ends.
AlreadyClean(t) ==
  /\ t # <<>>
  /\ \A i \in 1..Len(t) :
       /\ t[i] \notin Digits \cup {"(", ")", "\t", "\n"}
       /\ i > 1 /\ t[i] = " " => t[i - 1] # " "
  /\ {t[1], t[Len(t)]} \cap {" ", ",", ".", "-"} = {}
  /\ \A i \in 1..Len(t) :
       /\ MatchWord(t, i, units, ".") = 0
       /\ MatchWord(t, i, prep_words, ",") = 0

\* C28: for an ingredient name that is clean already,
\* _clean_ingredient_for_search returns the name as it is, and returns it
\* again when it is given what it returned.
C28_CleanIsIdempotent ==
  text_call # None /\ AlreadyClean(text_call[1].ingredient) =>
    /\ text_call[1].cleaned = text_call[1].ingredient
    /\ text_call[1].recleaned # None =>
         text_call[1].recleaned[1] = text_call[1].ingredient

\* "all-purpose flour", a clean name, was cleaned twice.
C28_Witness ==
  /\ text_call # None
  /\ AlreadyClean(text_call[1].ingredient)
  /\ text_call[1].ingredient =
       <<"a", "l", "l", "-", "p", "u", "r", "p", "o", "s", "e", " ", "f",
         "l", "o", "u", "r">>
  /\ text_call[1].recleaned = Some(text_call[1].ingredient)

\* C29: _get_search_suggestion returns a text for every ingredient: the last
\* two words of the cleaned term, one blank between them, when the cleaned
\* term has more than two words, and otherwise the cleaned term after the
\* annotation "Try simpler search: "; the text is never empty, also when
\* the ingredient cleans to nothing.
C29_SuggestionShape ==
  text_call # None /\ text_call[1].suggestion # None =>
    LET cleaned == text_call[1].cleaned
        got == text_call[1].suggestion[1]
        words == Split(cleaned)
        n == Len(words)
    IN /\ Len(got) > 0
       /\ n > 2 => got = words[n - 1] \o <<" ">> \o words[n]
       /\ n <= 2 => got = SuggestionPrefix \o cleaned
       /\ cleaned = <<>> => got = SuggestionPrefix

\* The suggestion for "1/2 lbs extra virgin olive oil", which cleans to four
\* words, is "olive oil".
C29_Witness ==
  /\ text_call # None
  /\ text_call[1].ingredient =
       <<"1", "/", "2", " ", "l", "b", "s", " ", "e", "x", "t", "r", "a",
         " ", "v", "i", "r", "g", "i", "n", " ", "o", "l", "i", "v", "e",
         " ", "o", "i", "l">>
  /\ Len(Split(text_call[1].cleaned)) = 4
  /\ text_call[1].suggestion =
       Some(<<"o", "l", "i", "v", "e", " ", "o", "i", "l">>)

\* The text is a quantity and what follows it, after optional whitespace.
HasLeadingQuantity(t) ==
  \E i \in 1..Len(t) : t[i] \in Digits /\ \A j \in 1..(i - 1) : IsSpace(t[j])

\* C30: _clean_ingredient_for_search strips a leading quantity together with
\* the whitespace around it: what it returns for a text that is optional
\* whitespace, a quantity, whitespace and a remainder without digits holds
\* no digit of the quantity.
C30_QuantityStripped ==
  text_call # None /\ HasLeadingQuantity(text_call[1].ingredient) =>
    \A i \in 1..Len(text_call[1].cleaned) :
      text_call[1].cleaned[i] \notin Digits

====
